---- MODULE Spec2Model ----
(***************************************************************************)
(* A model of src/main.py: the identifier normaliser (extract_video_id),   *)
(* the extraction gateway (get_youtube_stream_url) and the request handler *)
(* (get_stream) of the YouTube stream extractor.                           *)
(*                                                                         *)
(* Python strings that the code inspects character by character (the path  *)
(* argument, video IDs) are sequences of one-character strings.  Strings   *)
(* the code only passes on or concatenates (URLs of streams, error         *)
(* reasons) are TLA+ strings.  A Python dict is a function whose DOMAIN is *)
(* the set of keys present; in the tuple get_youtube_stream_url returns, a *)
(* component that is None is a key that is absent.                         *)
(***************************************************************************)
EXTENDS Integers, Sequences, FiniteSets, TLC

VARIABLES requests, log, capability

vars == <<requests, log, capability>>

----------------------------------------------------------------------------
(* Bounds of the model and constants of the program.                       *)

\* Number of requests the HTTP runtime handles concurrently.
NumRequests == 2

\* Longest `formats` list the extraction capability returns.
MaxFormats == 2

\* Longest failure message of the extraction capability, in phrases.
MaxMsgLen == 2

\* {11} in the regular expressions of extract_video_id.
IdLen == 11

----------------------------------------------------------------------------
(* Regular expressions of extract_video_id.                                *)

\* The character class [0-9A-Za-z_-].
IdChars ==
    {"0", "1", "2", "3", "4", "5", "6", "7", "8", "9",
     "A", "B", "C", "D", "E", "F", "G", "H", "I", "J", "K", "L", "M",
     "N", "O", "P", "Q", "R", "S", "T", "U", "V", "W", "X", "Y", "Z",
     "a", "b", "c", "d", "e", "f", "g", "h", "i", "j", "k", "l", "m",
     "n", "o", "p", "q", "r", "s", "t", "u", "v", "w", "x", "y", "z",
     "_", "-"}

\* Python's None as the value of a variable that otherwise holds a string:
\* no sequence of one-character strings equals it.
None == <<"None">>

\* The regex metacharacter '.', which is left unescaped in 'youtu.be'.
Dot == "<dot>"

\* One element of a pattern against one character: '.' matches any
\* character but a line feed, a literal matches itself.
ElemMatches(e, c) == IF e = Dot THEN c # "\n" ELSE e = c

\* The literal prefix m of an alternative matches s at position p.
MarkerAt(m, s, p) ==
    /\ p + Len(m) - 1 <= Len(s)
    /\ \A k \in 1..Len(m) : ElemMatches(m[k], s[p + k - 1])

\* [0-9A-Za-z_-]{11} matches s at position p.
RunAt(s, p) ==
    /\ p >= 1
    /\ p + IdLen - 1 <= Len(s)
    /\ \A k \in p..(p + IdLen - 1) : s[k] \in IdChars

\* re.match(r'^[0-9A-Za-z_-]{11}$', s): without re.MULTILINE, '$' matches
\* at the end of the string and also just before a line feed that ends it.
re_match_id(s) ==
    /\ RunAt(s, 1)
    /\ \/ Len(s) = IdLen
       \/ Len(s) = IdLen + 1 /\ s[IdLen + 1] = "\n"

embed_slash == <<"e", "m", "b", "e", "d", "/">>
v_slash == <<"v", "/">>
youtu_be_slash == <<"y", "o", "u", "t", "u", Dot, "b", "e", "/">>
watch_v == <<"w", "a", "t", "c", "h", "?", "v", "=">>

\* Each pattern is the ordered list of the alternatives of its group
\* (?:...); every alternative is followed by the capture ([0-9A-Za-z_-]{11}).
patterns ==
    << << <<"v", "=">>, <<"/">> >>,
       << embed_slash, v_slash, youtu_be_slash >>,
       << watch_v >> >>

SetMin(S) == CHOOSE x \in S : \A y \in S : x <= y

\* The alternatives of pat that match s at p with the capture after them.
AltsAt(pat, s, p) ==
    {a \in 1..Len(pat) :
        MarkerAt(pat[a], s, p) /\ RunAt(s, p + Len(pat[a]))}

\* re.search(pattern, s).group(1), or None: the leftmost position where the
\* pattern matches, and there the first alternative that matches.
re_search(pat, s) ==
    LET pos == {p \in 1..Len(s) : AltsAt(pat, s, p) # {}}
    IN  IF pos = {} THEN None
        ELSE LET p == SetMin(pos)
                 a == SetMin(AltsAt(pat, s, p))
                 g == p + Len(pat[a])
             IN  SubSeq(s, g, g + IdLen - 1)

\* for pattern in patterns: the capture of the first pattern that matches.
RECURSIVE first_match(_, _)
first_match(i, s) ==
    IF i > Len(patterns) THEN None
    ELSE IF re_search(patterns[i], s) # None THEN re_search(patterns[i], s)
    ELSE first_match(i + 1, s)

\* A variant of extract_video_id without the whole-string test.
extract_video_id_no_whole(url_or_id) == first_match(1, url_or_id)

extract_video_id(url_or_id) ==
    IF re_match_id(url_or_id) THEN url_or_id
    ELSE first_match(1, url_or_id)

----------------------------------------------------------------------------
(* urllib.parse.unquote, on the escapes the inputs of the model use.       *)

hex_table ==
    (<<"0", "A">> :> "\n") @@ (<<"2", "5">> :> "%") @@ (<<"2", "F">> :> "/")
    @@ (<<"3", "A">> :> ":") @@ (<<"3", "D">> :> "=") @@ (<<"3", "F">> :> "?")

RECURSIVE unquote_from(_, _)
unquote_from(s, i) ==
    IF i > Len(s) THEN <<>>
    ELSE IF /\ s[i] = "%"
            /\ i + 2 <= Len(s)
            /\ <<s[i + 1], s[i + 2]>> \in DOMAIN hex_table
         THEN <<hex_table[<<s[i + 1], s[i + 2]>>]>> \o unquote_from(s, i + 3)
         ELSE <<s[i]>> \o unquote_from(s, i + 1)

unquote(s) == unquote_from(s, 1)

----------------------------------------------------------------------------
(* The extraction capability (yt_dlp.YoutubeDL.extract_info), an external  *)
(* collaborator: for a video URL it returns an info dict or raises.        *)

WatchUrl ==
    <<"h", "t", "t", "p", "s", ":", "/", "/", "w", "w", "w", ".",
      "y", "o", "u", "t", "u", "b", "e", ".", "c", "o", "m", "/",
      "w", "a", "t", "c", "h", "?", "v", "=">>

\* video_url = f"https://www.youtube.com/watch?v={video_id}"
video_url(video_id) == WatchUrl \o video_id

\* info.get(key, default)
dict_get(d, key, default) == IF key \in DOMAIN d THEN d[key] ELSE default

\* Phrases failure messages are made of; a message is a sequence of them.
MsgPhrases ==
    {"ERROR: [youtube] ", "Video unavailable", "Private video",
     "Sign in to confirm your age", "HTTP Error 403: Forbidden"}

RECURSIVE SeqsUpTo(_, _)
SeqsUpTo(S, n) ==
    IF n = 0 THEN {<<>>}
    ELSE LET shorter == SeqsUpTo(S, n - 1)
         IN  shorter \cup {Append(q, x) : q \in shorter, x \in S}

Messages == SeqsUpTo(MsgPhrases, MaxMsgLen)

\* str(e): the phrases of the message, concatenated.
RECURSIVE str(_)
str(msg) == IF msg = <<>> THEN "" ELSE Head(msg) \o str(Tail(msg))

\* "phrase" in error_message
Contains(msg, phrase) == \E i \in 1..Len(msg) : msg[i] = phrase

\* Entries of a `formats` list: with a url, or without one.
FormatEntries ==
    {[format_id |-> "18"],
     [format_id |-> "18", url |-> "https://cdn/f0"],
     [format_id |-> "22", url |-> "https://cdn/f1"]}

MetaValues ==
    [title |-> "T", description |-> "D", channel |-> "C",
     duration |-> 212, thumbnail |-> "https://img/t.jpg"]

\* The info dicts: every subset of the metadata keys, with or without a
\* top-level url, with or without a formats list of up to MaxFormats
\* entries.
Infos ==
    LET metas   == {[k \in K |-> MetaValues[k]] : K \in SUBSET DOMAIN MetaValues}
        urls    == {<<>>, [url |-> "https://cdn/stream"]}
        formats == {<<>>} \cup
                   {[formats |-> f] : f \in SeqsUpTo(FormatEntries, MaxFormats)}
    IN  {m @@ u @@ f : m \in metas, u \in urls, f \in formats}

\* Exception classes the capability raises; all derive from Exception.
RaisedClasses == {"DownloadError", "Exception"}

Outcomes ==
    {[kind |-> "info", info |-> i] : i \in Infos}
    \cup {[kind |-> "raise", class |-> c, msg |-> m] :
            c \in RaisedClasses, m \in Messages}

----------------------------------------------------------------------------
(* get_youtube_stream_url: the tuple (stream_url, video_info, error) as a  *)
(* function holding the components that are not None.                      *)

video_info(info) ==
    [title        |-> dict_get(info, "title", "Unknown"),
     description  |-> dict_get(info, "description", ""),
     channel_name |-> dict_get(info, "channel", "Unknown"),
     duration     |-> dict_get(info, "duration", 0),
     thumbnail    |-> dict_get(info, "thumbnail", "")]

\* The `except DownloadError` clause, tested in another order.
download_error_reason_private_first(error_message) ==
    IF Contains(error_message, "Private video")
        THEN "This video is private"
    ELSE IF Contains(error_message, "Video unavailable")
        THEN "Video is unavailable or has been removed"
    ELSE IF Contains(error_message, "Sign in to confirm your age")
        THEN "Age-restricted video"
    ELSE "Error downloading video information: " \o str(error_message)

\* The `except DownloadError` clause, testing the age phrase before the
\* private one.
download_error_reason_age_first(error_message) ==
    IF Contains(error_message, "Video unavailable")
        THEN "Video is unavailable or has been removed"
    ELSE IF Contains(error_message, "Sign in to confirm your age")
        THEN "Age-restricted video"
    ELSE IF Contains(error_message, "Private video")
        THEN "This video is private"
    ELSE "Error downloading video information: " \o str(error_message)

\* The `except DownloadError` clause.
download_error_reason(error_message) ==
    IF Contains(error_message, "Video unavailable")
        THEN "Video is unavailable or has been removed"
    ELSE IF Contains(error_message, "Private video")
        THEN "This video is private"
    ELSE IF Contains(error_message, "Sign in to confirm your age")
        THEN "Age-restricted video"
    ELSE "Error downloading video information: " \o str(error_message)

\* The except clauses of the try statement, in order, for an exception of
\* class `class` raised inside it; a class neither clause catches leaves
\* the function as an exception.
except_clauses(class, msg) ==
    IF class = "DownloadError"
        THEN [error |-> download_error_reason(msg)]
    ELSE IF class \in {"DownloadError", "KeyError", "Exception"}
        THEN [error |-> "Unexpected error: " \o str(msg)]
    ELSE [raised |-> class]

\* The choice of the stream URL, taking the last format.
stream_url_last_format(info) ==
    IF "url" \in DOMAIN info
        THEN [url |-> info["url"]]
    ELSE LET formats == dict_get(info, "formats", <<>>)
         IN  IF formats # <<>>
                 THEN IF "url" \in DOMAIN formats[Len(formats)]
                          THEN [url |-> formats[Len(formats)]["url"]]
                          ELSE [raise |-> "KeyError"]
                 ELSE [error |-> "No stream URL found in video info"]

\* The choice of the stream URL: [url |-> u], or the early return
\* [error |-> reason], or the KeyError of formats[0]['url'].
stream_url_of(info) ==
    IF "url" \in DOMAIN info
        THEN [url |-> info["url"]]
    ELSE LET formats == dict_get(info, "formats", <<>>)
         IN  IF formats # <<>>
                 THEN IF "url" \in DOMAIN formats[1]
                          THEN [url |-> formats[1]["url"]]
                          ELSE [raise |-> "KeyError"]
                 ELSE [error |-> "No stream URL found in video info"]

get_youtube_stream_url(video_id, cap) ==
    LET outcome == cap[video_url(video_id)]
    IN  IF outcome.kind = "raise"
            THEN except_clauses(outcome.class, outcome.msg)
        ELSE LET chosen == stream_url_of(outcome.info)
             IN  IF "raise" \in DOMAIN chosen
                     \* str(KeyError('url')) is "'url'"
                     THEN except_clauses(chosen.raise, <<"'url'">>)
                 ELSE IF "error" \in DOMAIN chosen
                     THEN chosen
                 ELSE [stream_url |-> chosen.url,
                       video_info |-> video_info(outcome.info)]

----------------------------------------------------------------------------
(* The request handler get_stream.  Each request has its own locals; the   *)
(* module-level logger is the only object requests share.                  *)

Requests == 1..NumRequests

\* The locals of a request that has not started.
IdleRequest ==
    [pc |-> "idle", arg |-> <<>>, video_id_or_url |-> <<>>,
     video_id |-> None, result |-> [pending |-> TRUE], calls |-> 0,
     status |-> 0, response |-> [pending |-> TRUE]]

\* `not video_id`: None and the empty string are false.
falsy(v) == v = None \/ v = <<>>

invalid_envelope ==
    [success |-> FALSE, error |-> "Invalid YouTube video ID or URL"]

\* The failure envelope without the video ID.
error_envelope_no_id(error, video_id) ==
    [success |-> FALSE, error |-> error]

error_envelope(error, video_id) ==
    [success |-> FALSE, error |-> error, video_id |-> video_id]

success_envelope(video_id, result) ==
    [success    |-> TRUE,
     video_id   |-> video_id,
     stream_url |-> result.stream_url,
     video_info |-> result.video_info,
     cache_info |-> "Stream URL expires after maximum 12 hours"]

\* @app.errorhandler(500)
internal_server_error ==
    [success |-> FALSE, error |-> "Internal server error"]

\* logger.error(f"Error for video ID {video_id}: {error}")
log_record(r, video_id, error) ==
    [request |-> r, level |-> "ERROR", video_id |-> video_id, error |-> error]

\* Flask calls get_stream with the path of the request; the handler
\* percent-decodes it.
Receive(r, raw) ==
    /\ requests[r].pc = "idle"
    /\ requests' = [requests EXCEPT ![r].pc = "normalize",
                                    ![r].arg = raw,
                                    ![r].video_id_or_url = unquote(raw)]
    /\ UNCHANGED <<log, capability>>

\* video_id = extract_video_id(video_id_or_url), and the 400 response when
\* it is None.
Normalize(r) ==
    /\ requests[r].pc = "normalize"
    /\ LET video_id == extract_video_id(requests[r].video_id_or_url)
       IN  requests' =
             IF falsy(video_id)
                 THEN [requests EXCEPT ![r].pc = "done",
                                       ![r].video_id = video_id,
                                       ![r].status = 400,
                                       ![r].response = invalid_envelope]
                 ELSE [requests EXCEPT ![r].pc = "extract",
                                       ![r].video_id = video_id]
    /\ UNCHANGED <<log, capability>>

\* The call with a second attempt after a failure.
ExtractRetrying(r) ==
    /\ requests[r].pc = "extract"
    /\ LET result == get_youtube_stream_url(requests[r].video_id, capability)
       IN  requests' =
             [requests EXCEPT
                ![r].pc = "respond",
                ![r].result = result,
                ![r].calls = IF "error" \in DOMAIN result THEN @ + 2 ELSE @ + 1]
    /\ UNCHANGED <<log, capability>>

\* The call with video_id kept in a module-level variable, which any
\* request that has normalised its input may have overwritten.
ExtractSharedId(r) ==
    /\ requests[r].pc = "extract"
    /\ \E q \in Requests :
         /\ ~falsy(requests[q].video_id)
         /\ requests' =
              [requests EXCEPT
                 ![r].pc = "respond",
                 ![r].result =
                     get_youtube_stream_url(requests[q].video_id, capability),
                 ![r].calls = @ + 1]
    /\ UNCHANGED <<log, capability>>

\* stream_url, video_info, error = get_youtube_stream_url(video_id): the
\* one call of the extraction capability.
Extract(r) ==
    /\ requests[r].pc = "extract"
    /\ requests' =
         [requests EXCEPT
            ![r].pc = "respond",
            ![r].result = get_youtube_stream_url(requests[r].video_id, capability),
            ![r].calls = @ + 1]
    /\ UNCHANGED <<log, capability>>

\* The response after the call: an exception that left
\* get_youtube_stream_url is answered by the 500 handler; `if error:` logs
\* and answers 404; otherwise the success envelope with the default 200.
Respond(r) ==
    /\ requests[r].pc = "respond"
    /\ LET me == requests[r]
       IN  IF "raised" \in DOMAIN me.result
               THEN /\ requests' = [requests EXCEPT
                                      ![r].pc = "done",
                                      ![r].status = 500,
                                      ![r].response = internal_server_error]
                    /\ UNCHANGED log
           ELSE IF "error" \in DOMAIN me.result /\ me.result.error # ""
               THEN /\ log' = Append(log, log_record(r, me.video_id, me.result.error))
                    /\ requests' = [requests EXCEPT
                                      ![r].pc = "done",
                                      ![r].status = 404,
                                      ![r].response =
                                          error_envelope(me.result.error, me.video_id)]
           ELSE /\ requests' = [requests EXCEPT
                                  ![r].pc = "done",
                                  ![r].status = 200,
                                  ![r].response =
                                      success_envelope(me.video_id, me.result)]
                /\ UNCHANGED log
    /\ UNCHANGED capability

----------------------------------------------------------------------------
(* Inputs.                                                                 *)

IdA == <<"d", "Q", "w", "4", "w", "9", "W", "g", "X", "c", "Q">>
IdB == <<"a", "-", "b", "_", "c", "0", "d", "1", "E", "2", "F">>
IdC == <<"_", "-", "0", "Z", "z", "9", "v", "e", "m", "-", "_">>
CanonicalIds == {IdA, IdB, IdC}

WatchPrefix == WatchUrl
ShortPrefix ==
    <<"h", "t", "t", "p", "s", ":", "/", "/", "y", "o", "u", "t", "u", ".", "b", "e", "/">>
EmbedPrefix ==
    <<"h", "t", "t", "p", "s", ":", "/", "/", "w", "w", "w", ".",
      "y", "o", "u", "t", "u", "b", "e", ".", "c", "o", "m", "/", "e", "m", "b", "e", "d", "/">>
HostPrefix ==
    <<"h", "t", "t", "p", "s", ":", "/", "/", "w", "w", "w", ".",
      "y", "o", "u", "t", "u", "b", "e", ".", "c", "o", "m">>
AttributionPrefix ==
    <<"h", "t", "t", "p", "s", ":", "/", "/", "w", "w", "w", ".",
      "y", "o", "u", "t", "u", "b", "e", ".", "c", "o", "m", "/",
      "a", "t", "t", "r", "i", "b", "u", "t", "i", "o", "n", "_", "l", "i", "n", "k", "?", "u", "=">>
EncodedWatchPrefix ==
    <<"h", "t", "t", "p", "s", "%", "3", "A", "%", "2", "F", "%", "2", "F",
      "w", "w", "w", ".", "y", "o", "u", "t", "u", "b", "e", ".", "c", "o", "m",
      "%", "2", "F", "w", "a", "t", "c", "h", "%", "3", "F", "v", "%", "3", "D">>

\* The markers of an embedded ID.
Markers ==
    {<<"v", "=">>,
     <<"/", "w", "a", "t", "c", "h", "?", "v", "=">>,
     <<"/", "e", "m", "b", "e", "d", "/">>,
     <<"/", "v", "/">>,
     <<"y", "o", "u", "t", "u", ".", "b", "e", "/">>}

Prefixes == {<<>>, HostPrefix, AttributionPrefix, <<"x", "?">>}

Suffixes ==
    {<<>>,
     <<"&", "t", "=", "4", "2", "s">>,
     <<"?", "f", "e", "a", "t", "u", "r", "e", "=", "s", "h", "a", "r", "e">>,
     <<"x", "y", "z">>,
     <<"\n">>}

\* Inputs that are neither an ID nor a URL with one.
OtherInputs ==
    {<<"n", "o", "t", " ", "a", " ", "u", "r", "l">>,
     <<"d", "Q", "w", "4", "w", "9", "W", "g", "X", "c">>,
     <<"d", "Q", "w", "4", "w", "9", "W", "g", "X", "c", "Q", "Z">>,
     HostPrefix \o <<"/">>}

\* The path arguments of the normaliser's specification.
NormalizeInputs ==
    CanonicalIds
    \cup {p \o id : p \in {WatchPrefix, ShortPrefix, EmbedPrefix, EncodedWatchPrefix},
                    id \in CanonicalIds}
    \cup {p \o m \o id \o s :
            p \in Prefixes, m \in Markers, id \in CanonicalIds, s \in Suffixes}
    \cup {id \o <<"\n">> : id \in CanonicalIds}
    \cup {id \o <<"%", "0", "A">> : id \in CanonicalIds}
    \cup OtherInputs

\* The path arguments of the handler's specification.
HandlerInputs ==
    {IdA, WatchPrefix \o IdA, ShortPrefix \o IdB,
     <<"n", "o", "t", " ", "a", " ", "u", "r", "l">>}

\* The outcomes of the capability in the handler's specification.
HandlerOutcomes ==
    {[kind |-> "info", info |-> [url |-> "https://cdn/stream", title |-> "T"]],
     [kind |-> "info", info |-> [title |-> "T"]],
     [kind |-> "raise", class |-> "DownloadError", msg |-> <<"Private video">>],
     [kind |-> "raise", class |-> "Exception", msg |-> <<"HTTP Error 403: Forbidden">>]}

\* The video URLs get_stream can ask the capability about, given the path
\* arguments.
UrlsOf(inputs) ==
    {video_url(extract_video_id(unquote(x))) :
        x \in {y \in inputs : ~falsy(extract_video_id(unquote(y)))}}

\* A deterministic capability: a function from the video URL to its outcome.
Capabilities(inputs, outcomes) == [UrlsOf(inputs) -> outcomes]

----------------------------------------------------------------------------
(* Specifications.                                                         *)

InitWith(caps) ==
    /\ requests = [r \in Requests |-> IdleRequest]
    /\ log = <<>>
    /\ capability \in caps

\* Concurrent requests against any deterministic capability.
Init == InitWith(Capabilities(HandlerInputs, HandlerOutcomes))

Next ==
    \E r \in Requests :
        \/ \E raw \in HandlerInputs : Receive(r, raw)
        \/ Normalize(r)
        \/ Extract(r)
        \/ Respond(r)

Spec == Init /\ [][Next]_vars

\* The normaliser alone: one request over the inputs of the normaliser,
\* followed up to the return of extract_video_id.  No video is looked up.
InitNormalize == InitWith(Capabilities({}, Outcomes))

NextNormalize ==
    \/ \E raw \in NormalizeInputs : Receive(1, raw)
    \/ Normalize(1)

SpecNormalize == InitNormalize /\ [][NextNormalize]_vars

\* One request for one ID over every outcome of the capability.
InitGateway == InitWith(Capabilities({IdA}, Outcomes))

NextGateway ==
    \/ Receive(1, IdA)
    \/ Normalize(1)
    \/ Extract(1)
    \/ Respond(1)

SpecGateway == InitGateway /\ [][NextGateway]_vars

----------------------------------------------------------------------------
(* Properties.                                                             *)

Done(r) == requests[r].pc = "done"

\* extract_video_id has returned in request r.
Normalized(r) == requests[r].pc \in {"extract", "respond", "done"}

\* get_youtube_stream_url has returned in request r.
Extracted(r) == requests[r].pc \in {"respond", "done"} /\ requests[r].calls > 0

\* What the capability answers for the video of request r.
OutcomeOf(r) == capability[video_url(requests[r].video_id)]

\* A Canonical Video ID: exactly 11 characters of [0-9A-Za-z_-].
IsCanonical(v) == Len(v) = IdLen /\ \A k \in 1..Len(v) : v[k] \in IdChars

\* C1: extract_video_id returns id for a canonical id itself and for the
\* watch, youtu.be and embed URLs of id.
C1_CanonicalIdAndStandardUrls ==
    \A r \in Requests : \A id \in CanonicalIds :
        /\ Normalized(r)
        /\ requests[r].video_id_or_url \in
              {id, WatchPrefix \o id, ShortPrefix \o id, EmbedPrefix \o id}
        => requests[r].video_id = id

C1_Witness ==
    /\ IsCanonical(IdB)
    /\ Normalized(1)
    /\ requests[1].video_id_or_url = ShortPrefix \o IdB
    /\ requests[1].video_id = IdB

\* C3: an input that is not a bare ID and contains one of the markers
\* v=, /watch?v=, /embed/, /v/ or youtu.be/ followed by 11 allowed
\* characters resolves to the 11-character run after such a marker.
C3_MarkerRunIsReturned ==
    \A r \in Requests :
        LET s == requests[r].video_id_or_url
            occurrences ==
                {<<p, m>> \in (1..Len(s)) \X Markers :
                    MarkerAt(m, s, p) /\ RunAt(s, p + Len(m))}
        IN  /\ Normalized(r)
            /\ ~IsCanonical(s)
            /\ occurrences # {}
            => \E o \in occurrences :
                  requests[r].video_id =
                      SubSeq(s, o[1] + Len(o[2]), o[1] + Len(o[2]) + IdLen - 1)

\* C4: the result of extract_video_id is None or a Canonical Video ID.
C4_ResultIsNoneOrCanonical ==
    \A r \in Requests :
        Normalized(r) \/ Done(r)
        => requests[r].video_id = None \/ IsCanonical(requests[r].video_id)

\* C2: a finished request carries exactly one of the three envelopes, chosen
\* by the branch taken: 400 iff no ID was derived, 404 iff an ID was derived
\* and the gateway returned an error, 200 iff an ID was derived and it
\* returned none; success is true exactly when the status is 200.
C2_ThreeEnvelopes ==
    \A r \in Requests :
        LET me      == requests[r]
            derived == ~falsy(extract_video_id(me.video_id_or_url))
            failed  == "error" \in DOMAIN me.result
        IN  Done(r) =>
            /\ me.status \in {200, 400, 404}
            /\ me.status = 400 <=> ~derived
            /\ me.status = 404 <=> derived /\ failed
            /\ me.status = 200 <=> derived /\ ~failed
            /\ me.response.success <=> me.status = 200
            /\ me.status = 400 =>
                  /\ DOMAIN me.response = {"success", "error"}
                  /\ me.response.error = "Invalid YouTube video ID or URL"
            /\ me.status = 404 =>
                  /\ DOMAIN me.response = {"success", "error", "video_id"}
                  /\ me.response.error = me.result.error
                  /\ me.response.video_id = extract_video_id(me.video_id_or_url)
            /\ me.status = 200 =>
                  /\ DOMAIN me.response =
                        {"success", "video_id", "stream_url", "video_info", "cache_info"}
                  /\ me.response.video_id = extract_video_id(me.video_id_or_url)

C2_Witness ==
    \E r, q \in Requests :
        /\ Done(r) /\ requests[r].status = 404
        /\ Done(q) /\ requests[q].status = 400

\* C5 as stated: whenever the capability raises a failure whose message
\* contains "Private video", the reason is "This video is private" and the
\* response is 404 with that error and the derived video ID.
C5_AnyPrivateFailure ==
    \A r \in Requests :
        /\ Done(r)
        /\ Extracted(r)
        /\ OutcomeOf(r).kind = "raise"
        /\ Contains(OutcomeOf(r).msg, "Private video")
        => /\ requests[r].result = [error |-> "This video is private"]
           /\ requests[r].status = 404
           /\ requests[r].response.error = "This video is private"
           /\ requests[r].response.video_id = requests[r].video_id

\* C5 as amended: whenever the capability raises a DownloadError whose
\* message contains "Private video" and does not contain "Video
\* unavailable", the reason is "This video is private" and the response is
\* 404 with that error and the derived video ID.
C5_PrivateDownloadError ==
    \A r \in Requests :
        /\ Done(r)
        /\ Extracted(r)
        /\ OutcomeOf(r).kind = "raise"
        /\ OutcomeOf(r).class = "DownloadError"
        /\ Contains(OutcomeOf(r).msg, "Private video")
        /\ ~Contains(OutcomeOf(r).msg, "Video unavailable")
        => /\ requests[r].result = [error |-> "This video is private"]
           /\ requests[r].status = 404
           /\ requests[r].response.error = "This video is private"
           /\ requests[r].response.video_id = requests[r].video_id

C5_Witness ==
    /\ Done(1)
    /\ OutcomeOf(1) = [kind |-> "raise", class |-> "DownloadError",
                       msg |-> <<"Private video", "Sign in to confirm your age">>]
    /\ requests[1].status = 404
    /\ requests[1].response.error = "This video is private"

\* C6: every request that ends in a failure envelope (400 or 404) has put a
\* record in the log.
C6_EveryFailureIsLogged ==
    \A r \in Requests :
        Done(r) /\ requests[r].status # 200
        => \E i \in 1..Len(log) : log[i].request = r

\* C7: the capability is invoked at most once per request: once when an ID
\* was derived, never when none was; the call follows normalisation and the
\* response follows the return of the call.
C7_AtMostOneCall ==
    \A r \in Requests :
        LET me == requests[r]
        IN  /\ me.calls <= 1
            /\ Done(r) /\ ~falsy(me.video_id) => me.calls = 1
            /\ Done(r) /\ falsy(me.video_id) => me.calls = 0
            /\ me.calls > 0 =>
                  /\ me.pc \in {"respond", "done"}
                  /\ ~falsy(me.video_id)
                  /\ me.video_id = extract_video_id(me.video_id_or_url)
            /\ me.status # 0 =>
                  /\ Done(r)
                  /\ ~falsy(me.video_id) =>
                        me.calls = 1 /\ "pending" \notin DOMAIN me.result

C7_Witness ==
    \E r, q \in Requests :
        /\ Done(r) /\ requests[r].status = 404 /\ requests[r].calls = 1
        /\ Done(q) /\ requests[q].status = 400 /\ requests[q].calls = 0

\* C8: whatever requests ran before or alongside it, a finished request has
\* the status and envelope the same request has as the first one, which
\* are those of its input and the capability alone; two requests for the
\* same input end alike.
C8_NoStateBetweenRequests ==
    /\ \A r \in Requests :
          LET me  == requests[r]
              id  == extract_video_id(unquote(me.arg))
              res == get_youtube_stream_url(id, capability)
          IN  Done(r) =>
                <<me.status, me.response>> =
                   IF falsy(id)
                       THEN <<400, [success |-> FALSE,
                                    error |-> "Invalid YouTube video ID or URL"]>>
                   ELSE IF "error" \in DOMAIN res
                       THEN <<404, [success |-> FALSE, error |-> res.error,
                                    video_id |-> id]>>
                   ELSE <<200, [success |-> TRUE, video_id |-> id,
                                stream_url |-> res.stream_url,
                                video_info |-> res.video_info,
                                cache_info |->
                                    "Stream URL expires after maximum 12 hours"]>>
    /\ \A r, q \in Requests :
          Done(r) /\ Done(q) /\ requests[r].arg = requests[q].arg
          => /\ requests[r].status = requests[q].status
             /\ requests[r].response = requests[q].response

\* Two finished requests for different videos whose outcomes differ.
C8_Witness ==
    \E r, q \in Requests :
        /\ Done(r) /\ Done(q)
        /\ requests[r].status = 200 /\ requests[q].status = 404
        /\ requests[r].video_id = IdA /\ requests[q].video_id = IdB
        /\ Len(log) = 1

\* C9 as stated: with a top-level url the stream URL is its value; without
\* one and with a non-empty formats list it is the url of the first entry;
\* with neither the outcome is the failure "No stream URL found in video
\* info" with no stream URL and no metadata.
C9_StreamUrlChoice ==
    \A r \in Requests :
        Extracted(r) /\ OutcomeOf(r).kind = "info" =>
        LET info    == OutcomeOf(r).info
            formats == dict_get(info, "formats", <<>>)
            result  == requests[r].result
        IN  IF "url" \in DOMAIN info
                THEN /\ DOMAIN result = {"stream_url", "video_info"}
                     /\ result.stream_url = info["url"]
            ELSE IF formats # <<>>
                THEN /\ DOMAIN result = {"stream_url", "video_info"}
                     /\ "url" \in DOMAIN formats[1]
                     /\ result.stream_url = formats[1]["url"]
            ELSE result = [error |-> "No stream URL found in video info"]

\* C9 as amended: as stated when the first entry of formats has a url; when
\* it has none the outcome is the failure "Unexpected error: 'url'", also
\* when a later entry has a url.
C9_StreamUrlChoiceFirstEntry ==
    \A r \in Requests :
        Extracted(r) /\ OutcomeOf(r).kind = "info" =>
        LET info    == OutcomeOf(r).info
            formats == dict_get(info, "formats", <<>>)
            result  == requests[r].result
        IN  IF "url" \in DOMAIN info
                THEN /\ DOMAIN result = {"stream_url", "video_info"}
                     /\ result.stream_url = info["url"]
            ELSE IF formats # <<>> /\ "url" \in DOMAIN formats[1]
                THEN /\ DOMAIN result = {"stream_url", "video_info"}
                     /\ result.stream_url = formats[1]["url"]
            ELSE IF formats # <<>>
                THEN result = [error |-> "Unexpected error: 'url'"]
            ELSE result = [error |-> "No stream URL found in video info"]

C9_Witness ==
    /\ Extracted(1)
    /\ OutcomeOf(1).kind = "info"
    /\ "url" \notin DOMAIN OutcomeOf(1).info
    /\ "formats" \in DOMAIN OutcomeOf(1).info
    /\ OutcomeOf(1).info["formats"] =
          <<[format_id |-> "18", url |-> "https://cdn/f0"],
            [format_id |-> "22", url |-> "https://cdn/f1"]>>
    /\ requests[1].result.stream_url = "https://cdn/f0"

\* C10: every failure of the capability becomes exactly one reason and does
\* not leave get_youtube_stream_url: a DownloadError by the first of "Video
\* unavailable", "Private video", "Sign in to confirm your age" its message
\* contains, otherwise the generic reason with the message; any other
\* exception "Unexpected error: " with its string form.  The stream URL and
\* the metadata are absent and the reason is not empty.
C10_FailureMapping ==
    \A r \in Requests :
        Extracted(r) /\ OutcomeOf(r).kind = "raise" =>
        LET msg    == OutcomeOf(r).msg
            result == requests[r].result
        IN  /\ DOMAIN result = {"error"}
            /\ result.error # ""
            /\ Len(result.error) > 0
            /\ result.error =
                 IF OutcomeOf(r).class # "DownloadError"
                     THEN "Unexpected error: " \o str(msg)
                 ELSE IF Contains(msg, "Video unavailable")
                     THEN "Video is unavailable or has been removed"
                 ELSE IF Contains(msg, "Private video")
                     THEN "This video is private"
                 ELSE IF Contains(msg, "Sign in to confirm your age")
                     THEN "Age-restricted video"
                 ELSE "Error downloading video information: " \o str(msg)
            /\ Done(r) => requests[r].status = 404

C10_Witness ==
    /\ Done(1)
    /\ OutcomeOf(1) = [kind |-> "raise", class |-> "DownloadError",
                       msg |-> <<"Private video", "Video unavailable">>]
    /\ requests[1].result = [error |-> "Video is unavailable or has been removed"]

====
